---- MODULE Spec2Model ----
(***************************************************************************)
(* A model of ssh-keys (src/src/main.rs): the two commands `get` and `put` *)
(* that synchronise a directory of key files with one secret of a remote   *)
(* secret store.                                                           *)
(*                                                                         *)
(* Text is modelled as it is in the program: a string is a sequence of     *)
(* one-character strings, a path is such a string that the file system     *)
(* splits at "/" and resolves component by component.  The byte "\xFF"     *)
(* stands for a byte sequence that is not valid UTF-8.                     *)
(***************************************************************************)
EXTENDS Integers, Sequences, FiniteSets, TLC

VARIABLES
    pc,           \* position of the running command in get()/put()
    exit,         \* "running", "ok", "exit0" or the class of the error returned
    errPath,      \* the path the returned error names (<<>> when it names none)
    fs,           \* the file system: normalised path -> node
    store,        \* the remote store's value for secret_id
    remoteCalls,  \* requests this invocation has sent to the store
    files,        \* get: the decoded bundle still to be materialised
    log,          \* get: one record per bundle entry handled, in iteration order
    todo,         \* put: directory entries read_dir has not yielded yet
    map,          \* put: the bundle built by the scan
    shown,        \* put: the lines written to stdout so far (listing, prompts)
    answer,       \* put: the `answer` buffer of the confirmation loop
    asked,        \* put: how many lines the confirmation loop has read
    lastLine,     \* put: the line it read last
    response,     \* the store's answer to the request, while it is being handled
    fs0,          \* history: fs when the command started
    store0,       \* history: store when the command started
    cmd,          \* the command of this invocation: "get" or "put"
    runs,         \* invocations of the program so far
    history,      \* history: command and result of each earlier invocation
    requests,     \* history: the requests the store has received, over all invocations
    uuids,        \* how many UUIDs the generator has handed out
    exhausted     \* put: stdin has reached its end for good

vars == <<pc, exit, errPath, fs, store, remoteCalls, files, log, todo, map,
          shown, answer, asked, lastLine,
          response, fs0, store0, cmd, runs, history, requests, uuids, exhausted>>

\* what only a new invocation changes
session == <<cmd, runs, history>>

-----------------------------------------------------------------------------
(* Bounds of the model *)

\* largest number of members in a payload the store holds
MaxFiles == 2
\* largest number of entries in the put source directory
MaxEntries == 2
\* largest number of lines the operator types at the confirmation prompt
MaxLines == 3
\* largest number of invocations in a row
MaxRuns == 2

-----------------------------------------------------------------------------
(* Strings *)

EndsWith(s, suffix) ==
    /\ Len(s) >= Len(suffix)
    /\ SubSeq(s, Len(s) - Len(suffix) + 1, Len(s)) = suffix

Sep == "/"
Dot == <<".">>
DotDot == <<".", ".">>
InvalidByte == "\\xFF"

\* a lossy conversion, which takes any bytes
IsUtf8Lossy(bytes) == Len(bytes) >= 0

\* str::from_utf8 / OsStr::to_str: the bytes are text iff none is invalid
IsUtf8(bytes) == \A i \in 1..Len(bytes) : bytes[i] # InvalidByte

\* the components of a path string, split at every separator
RECURSIVE Split(_)
Split(s) ==
    IF s = <<>> THEN << <<>> >>
    ELSE LET r == Split(Tail(s))
         IN  IF Head(s) = Sep THEN << <<>> >> \o r
             ELSE << <<Head(s)>> \o Head(r) >> \o Tail(r)

\* Path::join: an absolute argument replaces the base
Join(base, k) ==
    IF k # <<>> /\ Head(k) = Sep THEN k
    ELSE IF base # <<>> /\ base[Len(base)] = Sep THEN base \o k
    ELSE base \o <<Sep>> \o k

-----------------------------------------------------------------------------
(* The file system *)

RootPath == <<>>
DirNode == [type |-> "dir"]
LinkNode == [type |-> "symlink"]
FifoNode == [type |-> "fifo"]
FileNode(content, mode) == [type |-> "file", content |-> content, mode |-> mode]

ParentOf(p) == IF p = <<>> THEN <<>> ELSE SubSeq(p, 1, Len(p) - 1)

Children(f, d) == {p \in DOMAIN f : Len(p) = Len(d) + 1 /\ ParentOf(p) = d}

\* path resolution: walks the components from `cur`; every component but the
\* last must lead through an existing directory
RECURSIVE Walk(_, _, _)
Walk(f, cur, comps) ==
    IF comps = <<>> THEN [err |-> "", path |-> cur]
    ELSE IF cur \notin DOMAIN f THEN [err |-> "ENOENT", path |-> cur]
    ELSE IF f[cur].type # "dir" THEN [err |-> "ENOTDIR", path |-> cur]
    ELSE LET c == Head(comps)
         IN  IF c = <<>> \/ c = Dot THEN Walk(f, cur, Tail(comps))
             ELSE IF c = DotDot THEN Walk(f, ParentOf(cur), Tail(comps))
             ELSE Walk(f, cur \o <<c>>, Tail(comps))

Locate(f, path) == Walk(f, RootPath, Split(path))

\* Path::exists
Exists(f, path) ==
    LET loc == Locate(f, path) IN loc.err = "" /\ loc.path \in DOMAIN f

\* Metadata::is_dir of an existing path
IsDir(f, path) == f[Locate(f, path).path].type = "dir"

\* a precondition that does not look into the directory
EntryCountSkipped(f, path) == 0

\* fs::read_dir(path).count()
EntryCount(f, path) == Cardinality(Children(f, Locate(f, path).path))

\* fs::create_dir_all: makes every missing directory on the way
RECURSIVE MkdirAll(_, _, _)
MkdirAll(f, cur, comps) ==
    IF cur \in DOMAIN f /\ f[cur].type # "dir" THEN [err |-> "ENOTDIR", fs |-> f]
    ELSE LET g == IF cur \in DOMAIN f THEN f
                  ELSE [p \in DOMAIN f \cup {cur} |-> IF p = cur THEN DirNode ELSE f[p]]
         IN  IF comps = <<>> THEN [err |-> "", fs |-> g]
             ELSE LET c == Head(comps)
                  IN  IF c = <<>> \/ c = Dot THEN MkdirAll(g, cur, Tail(comps))
                      ELSE IF c = DotDot THEN MkdirAll(g, ParentOf(cur), Tail(comps))
                      ELSE MkdirAll(g, cur \o <<c>>, Tail(comps))

\* a get that leaves the creation of the target to the first file
CreateDirLater(f, path) == [err |-> "", fs |-> f]

CreateDirAll(f, path) == MkdirAll(f, RootPath, Split(path))

\* create(true).truncate(true) in place of create_new(true): an existing file is
\* opened and emptied, its mode kept
OpenCreateTruncate(f, path, mode) ==
    LET loc == Locate(f, path)
    IN  IF loc.err # "" THEN [err |-> loc.err, path |-> loc.path, fs |-> f]
        ELSE IF loc.path \in DOMAIN f /\ f[loc.path].type # "file"
             THEN [err |-> "EISDIR", path |-> loc.path, fs |-> f]
        ELSE [err |-> "", path |-> loc.path,
              fs |-> [p \in DOMAIN f \cup {loc.path} |->
                        IF p # loc.path THEN f[p]
                        ELSE IF p \in DOMAIN f THEN FileNode(<<>>, f[p].mode)
                        ELSE FileNode(<<>>, mode)]]

\* OpenOptions::new().create_new(true).write(true).mode(mode).open(path):
\* O_CREAT | O_EXCL, so an existing final path of any kind is an error
OpenCreateNew(f, path, mode) ==
    LET loc == Locate(f, path)
    IN  IF loc.err # "" THEN [err |-> loc.err, path |-> loc.path, fs |-> f]
        ELSE IF loc.path \in DOMAIN f THEN [err |-> "EEXIST", path |-> loc.path, fs |-> f]
        ELSE [err |-> "", path |-> loc.path,
              fs |-> [p \in DOMAIN f \cup {loc.path} |->
                        IF p = loc.path THEN FileNode(<<>>, mode) ELSE f[p]]]

\* the bytes that reached the file
WithContent(f, p, bytes) == [f EXCEPT ![p].content = bytes]

-----------------------------------------------------------------------------
(* The remote store and the payload *)

\* a JSON text, by what serde_json reads in it
JBad == [t |-> "bad"]
JNum == [t |-> "num"]
JStr(s) == [t |-> "str", s |-> s]
JArr == [t |-> "arr"]
JObj(members) == [t |-> "obj", m |-> members]
Member(k, v) == [k |-> k, v |-> v]

NoSecret == [kind |-> "missing"]
BinarySecret == [kind |-> "binary"]
StringSecret(doc) == [kind |-> "string", text |-> doc]

\* Uuid::new_v4: a value the generator has not handed out before
NewV4(n) == [uuid |-> n + 1]
NoToken == [uuid |-> 0]

\* a request as the store receives it, and whether the store answered it
Request(op, token, payload, ok) ==
    [run |-> runs, op |-> op, token |-> token, payload |-> payload, ok |-> ok]

\* HashMap::insert of each member in turn: the last value of a key stays
RECURSIVE InsertAll(_, _)
InsertAll(b, members) ==
    IF members = <<>> THEN b
    ELSE LET m == Head(members)
         IN  InsertAll([k \in DOMAIN b \cup {m.k} |-> IF k = m.k THEN m.v.s ELSE b[k]],
                       Tail(members))

EmptyBundle == [k \in {} |-> <<>>]

\* a decoder that drops the members whose value is no string
DecodeLenient(doc) ==
    IF doc.t # "obj" THEN [ok |-> FALSE, files |-> EmptyBundle]
    ELSE [ok |-> TRUE,
          files |-> InsertAll(EmptyBundle,
                              SelectSeq(doc.m, LAMBDA mem : mem.v.t = "str"))]

\* serde_json::from_str::<HashMap<String, String>>
Decode(doc) ==
    IF doc.t # "obj" THEN [ok |-> FALSE, files |-> EmptyBundle]
    ELSE IF \E i \in 1..Len(doc.m) : doc.m[i].v.t # "str"
         THEN [ok |-> FALSE, files |-> EmptyBundle]
    ELSE [ok |-> TRUE, files |-> InsertAll(EmptyBundle, doc.m)]

-----------------------------------------------------------------------------
(* get *)

\* the outdir argument
Outdir == <<"/", "p", "/", "t">>

ModePublic == 292    \* 0o444
ModePrivate == 256   \* 0o400
PubSuffix == <<".", "p", "u", "b">>
PublicSuffix == <<".", "p", "u", "b", "l", "i", "c">>

\* a policy that knows the .pub suffix only
ModeForPubOnly(k) ==
    IF EndsWith(k, PubSuffix) THEN ModePublic ELSE ModePrivate

ModeFor(k) ==
    IF EndsWith(k, PubSuffix) \/ EndsWith(k, PublicSuffix) THEN ModePublic
    ELSE ModePrivate

\* capacity of io::BufWriter::new (8 KiB in std), scaled down
BufCap == 2

\* BufWriter::write_all on an empty buffer: content shorter than the capacity is
\* only copied to the buffer, longer content goes to the file at once
Buffered(v) == Len(v) < BufCap

Without(b, k) == [x \in DOMAIN b \ {k} |-> b[x]]

LogEntry(k, p, v, mode, outcome) ==
    [key |-> k, path |-> p, content |-> v, mode |-> mode, outcome |-> outcome]

\* a command that issues its request again when the store has failed it
FailRetrying(kind, path) ==
    IF kind = "StoreError" /\ pc \in {"get_fetch", "put_send"}
    THEN UNCHANGED <<exit, errPath, pc>>
    ELSE /\ exit' = kind
         /\ errPath' = path
         /\ pc' = "done"

Fail(kind, path) ==
    /\ exit' = kind
    /\ errPath' = path
    /\ pc' = "done"

\* lines 84-103: the outdir precondition
GetCheckOutdir ==
    /\ pc = "get_start"
    /\ IF Exists(fs, Outdir)
       THEN /\ IF ~IsDir(fs, Outdir) THEN Fail("ValidationError", Outdir)
               ELSE IF EntryCount(fs, Outdir) # 0 THEN Fail("ValidationError", Outdir)
               ELSE pc' = "get_fetch" /\ UNCHANGED <<exit, errPath>>
            /\ UNCHANGED fs
       ELSE LET r == CreateDirAll(fs, Outdir)
            IN  IF r.err # ""
                THEN Fail("FileSystemError", Outdir) /\ UNCHANGED fs
                ELSE /\ fs' = r.fs
                     /\ pc' = "get_fetch"
                     /\ UNCHANGED <<exit, errPath>>
    /\ UNCHANGED <<store, remoteCalls, files, log, todo, map, shown, answer, asked, lastLine,
                   response, fs0, store0>>
    /\ UNCHANGED <<session, requests, uuids, exhausted>>

\* lines 104-109: the one request; it fails when the store has no such secret
\* or the transport fails
GetFetch ==
    /\ pc = "get_fetch"
    /\ remoteCalls' = remoteCalls + 1
    /\ \E transportOk \in BOOLEAN :
          IF transportOk /\ store.kind # "missing"
          THEN /\ response' = store
               /\ requests' = Append(requests, Request("get", NoToken, NoSecret, TRUE))
               /\ pc' = "get_decode"
               /\ UNCHANGED <<exit, errPath>>
          ELSE /\ Fail("StoreError", <<>>)
               /\ requests' = Append(requests, Request("get", NoToken, NoSecret, FALSE))
               /\ UNCHANGED response
    /\ UNCHANGED <<fs, store, files, log, todo, map, shown, answer, asked, lastLine, fs0, store0>>
    /\ UNCHANGED <<session, uuids, exhausted>>

\* lines 110-113: secret_string must be present and decode to the bundle
GetDecode ==
    /\ pc = "get_decode"
    /\ IF response.kind # "string"
       THEN Fail("StoreError", <<>>) /\ UNCHANGED files
       ELSE LET d == Decode(response.text)
            IN  IF ~d.ok
                THEN Fail("DecodeError", <<>>) /\ UNCHANGED files
                ELSE /\ files' = d.files
                     /\ pc' = "get_loop"
                     /\ UNCHANGED <<exit, errPath>>
    /\ UNCHANGED <<fs, store, remoteCalls, log, todo, map, shown, answer, asked, lastLine,
                   response, fs0, store0>>
    /\ UNCHANGED <<session, requests, uuids, exhausted>>

\* lines 114-129, one iteration for entry (k, v) of the map, in the map's
\* arbitrary order: create the file, write_all through a BufWriter, drop it.
\* `n` is the number of bytes the file system takes before it fails the
\* write; n = Len(v) is a write without failure.
GetMaterialize(k) ==
    /\ pc = "get_loop"
    /\ k \in DOMAIN files
    /\ LET v == files[k]
           path == Join(Outdir, k)
           mode == ModeFor(k)
           o == OpenCreateNew(fs, path, mode)
       IN  IF o.err # ""
           THEN /\ Fail("FileSystemError", path)
                /\ log' = Append(log, LogEntry(k, o.path, v, mode, "create_failed"))
                /\ UNCHANGED <<fs, files>>
           ELSE \E n \in 0..Len(v) :
                   /\ fs' = WithContent(o.fs, o.path, SubSeq(v, 1, n))
                   /\ IF n = Len(v)
                      THEN /\ log' = Append(log, LogEntry(k, o.path, v, mode, "written"))
                           /\ files' = Without(files, k)
                           /\ UNCHANGED <<pc, exit, errPath>>
                      ELSE IF Buffered(v)
                      THEN \* the flush in BufWriter's drop fails: the error is dropped
                           /\ log' = Append(log, LogEntry(k, o.path, v, mode, "flush_failed"))
                           /\ files' = Without(files, k)
                           /\ UNCHANGED <<pc, exit, errPath>>
                      ELSE \* write_all itself fails: line 128 returns the error
                           /\ log' = Append(log, LogEntry(k, o.path, v, mode, "write_failed"))
                           /\ Fail("FileSystemError", <<>>)
                           /\ UNCHANGED files
    /\ UNCHANGED <<store, remoteCalls, todo, map, shown, answer, asked, lastLine, response,
                   fs0, store0>>
    /\ UNCHANGED <<session, requests, uuids, exhausted>>

\* line 130
GetReturn ==
    /\ pc = "get_loop"
    /\ DOMAIN files = {}
    /\ exit' = "ok"
    /\ pc' = "done"
    /\ UNCHANGED <<errPath, fs, store, remoteCalls, files, log, todo, map, shown,
                   answer, asked, lastLine, response, fs0, store0>>
    /\ UNCHANGED <<session, requests, uuids, exhausted>>

NextGet ==
    \/ GetCheckOutdir
    \/ GetFetch
    \/ GetDecode
    \/ \E k \in DOMAIN files : GetMaterialize(k)
    \/ GetReturn

-----------------------------------------------------------------------------
(* The states get starts in *)

\* a file system from a set of <<path, node>> pairs
MkFs(S) == [p \in {x[1] : x \in S} |-> (CHOOSE x \in S : x[1] = p)[2]]

NameP == <<"p">>
NameT == <<"t">>
NameE == <<"e">>
NameK == <<"k">>
OldFile == FileNode(<<"O">>, 420)

RootOnly == {<<RootPath, DirNode>>}
\* files next to the target and at the root, which a run must leave alone
Outside == {<< <<NameE>>, OldFile >>, << <<NameP, NameE>>, OldFile >>}

GetFsPool ==
    { MkFs(RootOnly),
      MkFs(RootOnly \cup {<< <<NameP>>, OldFile >>}),
      MkFs(RootOnly \cup {<< <<NameP>>, DirNode >>}),
      MkFs(RootOnly \cup {<< <<NameP>>, DirNode >>, << <<NameP, NameT>>, OldFile >>}),
      MkFs(RootOnly \cup {<< <<NameP>>, DirNode >>, << <<NameP, NameT>>, DirNode >>}),
      MkFs(RootOnly \cup Outside \cup {<< <<NameP>>, DirNode >>}),
      MkFs(RootOnly \cup Outside \cup {<< <<NameP>>, DirNode >>, << <<NameP, NameT>>, DirNode >>}),
      MkFs(RootOnly \cup {<< <<NameP>>, DirNode >>, << <<NameP, NameT>>, DirNode >>,
                          << <<NameP, NameT, NameK>>, OldFile >>}),
      MkFs(RootOnly \cup {<< <<NameP>>, DirNode >>, << <<NameP, NameT>>, DirNode >>,
                          << <<NameP, NameT, NameE>>, DirNode >>}) }

KeyPriv == <<"k">>
KeyPub == <<"k", ".", "p", "u", "b">>
KeyPublic == <<"k", ".", "p", "u", "b", "l", "i", "c">>
KeyDotSlash == <<".", "/", "k">>
KeyUp == <<".", ".", "/", "e">>
KeyAbs == <<"/", "e">>
KeySub == <<"d", "/", "k">>
KeyEmpty == <<>>

KeyPool == {KeyPriv, KeyPub, KeyPublic, KeyDotSlash, KeyUp, KeyAbs, KeySub, KeyEmpty}

ShortContent == <<"A">>
LongContent == [i \in 1..BufCap |-> "B"]
ContentPool == {<<>>, ShortContent, LongContent}

\* the bundles of at most MaxFiles entries
Bundles ==
    UNION {[S -> ContentPool] : S \in {T \in SUBSET KeyPool : Cardinality(T) <= MaxFiles}}

\* a JSON object text holding bundle b, its members in some order
RECURSIVE MembersOf(_)
MembersOf(b) ==
    IF DOMAIN b = {} THEN <<>>
    ELSE LET k == CHOOSE x \in DOMAIN b : TRUE
         IN  <<Member(k, JStr(b[k]))>> \o MembersOf(Without(b, k))

\* what the store may hold: nothing, a binary secret, a text that is no JSON,
\* JSON of another shape, an object with a repeated key, or a bundle's object
StorePool ==
    {NoSecret, BinarySecret, StringSecret(JBad), StringSecret(JArr),
     StringSecret(JObj(<<Member(KeyPriv, JStr(ShortContent)), Member(KeyPub, JNum)>>)),
     StringSecret(JObj(<<Member(KeyPriv, JStr(ShortContent)),
                         Member(KeyPriv, JStr(LongContent))>>))}
    \cup {StringSecret(JObj(MembersOf(b))) : b \in Bundles}

InitGet ==
    /\ pc = "get_start"
    /\ exit = "running"
    /\ errPath = <<>>
    /\ fs \in GetFsPool
    /\ store \in StorePool
    /\ remoteCalls = 0
    /\ files = EmptyBundle
    /\ log = <<>>
    /\ todo = {}
    /\ map = EmptyBundle
    /\ shown = <<>>
    /\ answer = <<>>
    /\ asked = 0
    /\ lastLine = <<>>
    /\ response = NoSecret
    /\ fs0 = fs
    /\ store0 = store
    /\ cmd = "get"
    /\ runs = 1
    /\ history = <<>>
    /\ requests = <<>>
    /\ uuids = 0
    /\ exhausted = FALSE

SpecGet == InitGet /\ [][NextGet]_vars

-----------------------------------------------------------------------------
(* put *)

\* the indir argument
Indir == <<"/", "s">>

\* the last component of a path string (Path::file_name)
FileName(path) == LET c == Split(path) IN c[Len(c)]

\* a scan that skips directories only
IsNotDir(f, p) == f[p].type # "dir"

\* Metadata::is_file of what DirEntry::metadata reports for the entry itself
\* (a symlink is not followed)
IsFile(f, p) == f[p].type = "file"

\* fs::read_to_string: the content of the regular file the path leads to, when
\* it is valid UTF-8
ReadToString(f, path) ==
    LET loc == Locate(f, path)
    IN  IF loc.err # "" THEN [err |-> loc.err, text |-> <<>>]
        ELSE IF loc.path \notin DOMAIN f THEN [err |-> "ENOENT", text |-> <<>>]
        ELSE IF f[loc.path].type = "dir" THEN [err |-> "EISDIR", text |-> <<>>]
        ELSE IF f[loc.path].type # "file" THEN [err |-> "EIO", text |-> <<>>]
        ELSE IF ~IsUtf8(f[loc.path].content) THEN [err |-> "InvalidData", text |-> <<>>]
        ELSE [err |-> "", text |-> f[loc.path].content]

\* the code point of a character, for the order str's Ord compares by
Code(c) ==
    CASE c = "\n" -> 10 [] c = " " -> 32 [] c = "." -> 46 [] c = "/" -> 47
      [] c = "A" -> 65 [] c = "B" -> 66 [] c = "E" -> 69 [] c = "N" -> 78
      [] c = "O" -> 79 [] c = "S" -> 83 [] c = "Y" -> 89 [] c = "Z" -> 90
      [] c = "a" -> 97 [] c = "b" -> 98 [] c = "c" -> 99 [] c = "d" -> 100
      [] c = "e" -> 101 [] c = "i" -> 105 [] c = "k" -> 107 [] c = "l" -> 108
      [] c = "m" -> 109 [] c = "n" -> 110 [] c = "o" -> 111 [] c = "p" -> 112
      [] c = "q" -> 113 [] c = "s" -> 115 [] c = "t" -> 116 [] c = "u" -> 117
      [] c = "x" -> 120 [] c = "y" -> 121
      [] OTHER -> 255

\* a <= b in the lexicographic order of strings
RECURSIVE StrLeq(_, _)
StrLeq(a, b) ==
    IF a = <<>> THEN TRUE
    ELSE IF b = <<>> THEN FALSE
    ELSE IF Head(a) = Head(b) THEN StrLeq(Tail(a), Tail(b))
    ELSE Code(Head(a)) < Code(Head(b))

\* the orders a set can be iterated in
Orders(S) ==
    {q \in [1..Cardinality(S) -> S] : \A i, j \in 1..Cardinality(S) : q[i] = q[j] => i = j}

\* a sort in descending order
SortKeysDescending(S) ==
    CHOOSE q \in Orders(S) : \A i, j \in 1..Cardinality(S) : i < j => StrLeq(q[j], q[i])

\* keys.sort(): the keys in ascending order
SortKeys(S) ==
    CHOOSE q \in Orders(S) : \A i, j \in 1..Cardinality(S) : i < j => StrLeq(q[i], q[j])

IsSpace(c) == c \in {" ", "\n", "\t", "\r"}

\* str::trim
RECURSIVE TrimStart(_)
TrimStart(a) ==
    IF a # <<>> /\ IsSpace(Head(a)) THEN TrimStart(Tail(a)) ELSE a
RECURSIVE TrimEnd(_)
TrimEnd(a) ==
    IF a # <<>> /\ IsSpace(a[Len(a)]) THEN TrimEnd(SubSeq(a, 1, Len(a) - 1)) ELSE a
Trim(a) == TrimEnd(TrimStart(a))

\* a gate that also takes the empty answer as consent
IsYesOrDefault(t) ==
    t \in {<<"y", "e", "s">>, <<"y">>, <<"Y", "e", "s">>, <<"Y", "E", "S">>, <<>>}

\* line 187
IsYes(t) ==
    t \in {<<"y", "e", "s">>, <<"y">>, <<"Y", "e", "s">>, <<"Y", "E", "S">>}
\* line 188
IsNo(t) ==
    t \in {<<"n", "o">>, <<"n">>, <<"N", "o">>, <<"N", "O">>}

Out(kind, text) == [kind |-> kind, text |-> text]

\* lines 171-175: one line per key, sorted
Listing(b) ==
    LET keys == SortKeys(DOMAIN b)
    IN  [i \in 1..Len(keys) |-> Out("item", keys[i])]

\* an upload that keeps what the store holds and adds the map to it
EncodeMerged(b, q) ==
    JObj((IF store.kind = "string" /\ store.text.t = "obj" THEN store.text.m ELSE <<>>)
         \o [i \in 1..Len(q) |-> Member(q[i], JStr(b[q[i]]))])

\* serde_json::to_string_pretty of the map, its members in iteration order q
Encode(b, q) == JObj([i \in 1..Len(q) |-> Member(q[i], JStr(b[q[i]]))])

\* lines 138-142: indir must be a directory; read_dir then yields its entries
PutCheckIndir ==
    /\ pc = "put_start"
    /\ IF ~Exists(fs, Indir)
       THEN Fail("FileSystemError", <<>>) /\ UNCHANGED todo
       ELSE IF ~IsDir(fs, Indir)
       THEN Fail("ValidationError", Indir) /\ UNCHANGED todo
       ELSE /\ todo' = Children(fs, Locate(fs, Indir).path)
            /\ pc' = "put_scan"
            /\ UNCHANGED <<exit, errPath>>
    /\ UNCHANGED <<fs, store, remoteCalls, files, log, map, shown, answer, asked, lastLine,
                   response, fs0, store0>>
    /\ UNCHANGED <<session, requests, uuids, exhausted>>

\* lines 142-166, one iteration for directory entry e, in read_dir's order
PutScanEntry(e) ==
    /\ pc = "put_scan"
    /\ e \in todo
    /\ LET path == Join(Indir, e[Len(e)])
           name == FileName(path)
           r == ReadToString(fs, path)
       IN  IF ~IsFile(fs, e)
           THEN /\ todo' = todo \ {e}
                /\ UNCHANGED <<pc, exit, errPath, map>>
           ELSE IF ~IsUtf8(name)
           THEN Fail("EncodingError", path) /\ UNCHANGED <<todo, map>>
           ELSE IF r.err = "InvalidData"
           THEN Fail("EncodingError", path) /\ UNCHANGED <<todo, map>>
           ELSE IF r.err # ""
           THEN Fail("FileSystemError", path) /\ UNCHANGED <<todo, map>>
           ELSE /\ map' = [k \in DOMAIN map \cup {name} |->
                             IF k = name THEN r.text ELSE map[k]]
                /\ todo' = todo \ {e}
                /\ UNCHANGED <<pc, exit, errPath>>
    /\ UNCHANGED <<fs, store, remoteCalls, files, log, shown, answer, asked, lastLine,
                   response, fs0, store0>>
    /\ UNCHANGED <<session, requests, uuids, exhausted>>

\* lines 167-177: the question, the sorted listing and the warning
PutShowListing ==
    /\ pc = "put_scan"
    /\ todo = {}
    /\ shown' = <<Out("question", <<>>)>> \o Listing(map) \o <<Out("warning", <<>>)>>
    /\ pc' = "put_confirm"
    /\ UNCHANGED <<exit, errPath, fs, store, remoteCalls, files, log, todo, map,
                   answer, asked, lastLine, response, fs0, store0>>
    /\ UNCHANGED <<session, requests, uuids, exhausted>>

\* lines 179-194, one iteration of the loop: prompt, read a line, match the
\* trimmed answer.  read_line returns the empty line at end of input; a
\* terminal may deliver lines after that, a pipe or file that is exhausted
\* never does.
PutAsk(line) ==
    /\ pc = "put_confirm"
    /\ asked < MaxLines
    /\ exhausted => line = <<>>
    /\ exhausted' \in (IF line = <<>> THEN {exhausted, TRUE} ELSE {FALSE})
    /\ asked' = asked + 1
    /\ lastLine' = line
    /\ LET a == answer \o line
           t == Trim(a)
       IN  IF IsYes(t)
           THEN /\ answer' = a
                /\ pc' = "put_send"
                /\ shown' = Append(shown, Out("prompt", <<>>))
                /\ UNCHANGED <<exit, errPath>>
           ELSE IF IsNo(t)
           THEN /\ answer' = a
                /\ shown' = shown \o <<Out("prompt", <<>>), Out("cancel", <<>>)>>
                /\ exit' = "exit0"
                /\ pc' = "done"
                /\ UNCHANGED errPath
           ELSE /\ answer' = <<>>
                /\ shown' = Append(shown, Out("prompt", <<>>))
                /\ UNCHANGED <<pc, exit, errPath>>
    /\ UNCHANGED <<fs, store, remoteCalls, files, log, todo, map, response, fs0, store0>>
    /\ UNCHANGED <<session, requests, uuids>>

\* a token computed from the payload, the same for the same payload
ContentToken(n, doc) == [digest |-> doc]

\* line 198: the token is a UUID generated for this request
ClientRequestToken(n, doc) == NewV4(n)

\* lines 195-203: encode the map and send the one replace request; a request
\* that fails leaves the secret as it was
PutSend ==
    /\ pc = "put_send"
    /\ remoteCalls' = remoteCalls + 1
    /\ uuids' = uuids + 1
    /\ \E q \in Orders(DOMAIN map), transportOk \in BOOLEAN, version \in {"none", "v1"} :
          LET s == Encode(map, q)
              secret == StringSecret(s)
              token == ClientRequestToken(uuids, s)
          IN  IF transportOk /\ store.kind # "missing"
              THEN /\ store' = secret
                   /\ requests' = Append(requests, Request("put", token, secret, TRUE))
                   /\ response' = [kind |-> "put", version |-> version]
                   /\ pc' = "put_report"
                   /\ UNCHANGED <<exit, errPath>>
              ELSE /\ Fail("StoreError", <<>>)
                   /\ requests' = Append(requests, Request("put", token, secret, FALSE))
                   /\ UNCHANGED <<store, response>>
    /\ UNCHANGED <<fs, files, log, todo, map, shown, answer, asked, lastLine, fs0, store0>>
    /\ UNCHANGED <<session, exhausted>>

\* lines 204-207
PutReport ==
    /\ pc = "put_report"
    /\ shown' = IF response.version # "none"
                THEN Append(shown, Out("version", <<response.version>>))
                ELSE shown
    /\ exit' = "ok"
    /\ pc' = "done"
    /\ UNCHANGED <<errPath, fs, store, remoteCalls, files, log, todo, map, answer, asked, lastLine, response, fs0, store0>>
    /\ UNCHANGED <<session, requests, uuids, exhausted>>

\* what the operator may type: the tokens in several casings, other words,
\* padded answers, an answer without a newline, and end of input
LinePool ==
    { <<"y", "e", "s", "\n">>, <<"y", "\n">>, <<"Y", "e", "s", "\n">>,
      <<"Y", "E", "S", "\n">>, <<"Y", "\n">>, <<"y", "E", "s", "\n">>,
      <<"n", "o", "\n">>, <<"n", "\n">>, <<"N", "o", "\n">>, <<"N", "O", "\n">>,
      <<"N", "\n">>, <<"n", "O", "\n">>,
      <<"m", "a", "y", "b", "e", "\n">>, <<"\n">>, <<" ", "y", " ", "\n">>,
      <<"n", "o">>, <<>> }

NextPut ==
    \/ PutCheckIndir
    \/ \E e \in todo : PutScanEntry(e)
    \/ PutShowListing
    \/ \E line \in LinePool : PutAsk(line)
    \/ PutSend
    \/ PutReport

(* The states put starts in *)

NameS == <<"s">>
NameD == <<"d">>
BadName == <<InvalidByte, "n">>
BadDirName == <<InvalidByte, "d">>
InS(name) == <<NameS, name>>

\* what the source directory may hold: regular files, a subdirectory with a
\* file in it, a symlink, a fifo, a file whose name is not text, a file whose
\* content is not text, a directory whose name is not text
EntryPool ==
    { {<<InS(<<"k">>), FileNode(<<"A">>, 384)>>},
      {<<InS(KeyPub), FileNode(<<"B">>, 420)>>},
      {<<InS(<<"Z">>), FileNode(<<>>, 384)>>},
      {<<InS(NameD), DirNode>>, <<InS(NameD) \o <<NameK>>, FileNode(<<"A">>, 384)>>},
      {<<InS(<<"l">>), LinkNode>>},
      {<<InS(<<"q">>), FifoNode>>},
      {<<InS(BadName), FileNode(<<"A">>, 384)>>},
      {<<InS(<<"x">>), FileNode(<<"A", InvalidByte>>, 384)>>},
      {<<InS(BadDirName), DirNode>>} }

PutFsPool ==
    { MkFs(RootOnly), MkFs(RootOnly \cup {<< <<NameS>>, OldFile >>}) }
    \cup { MkFs(RootOnly \cup {<< <<NameS>>, DirNode >>} \cup UNION E) :
              E \in {T \in SUBSET EntryPool : Cardinality(T) <= MaxEntries} }

PutStorePool ==
    {NoSecret, StringSecret(JObj(<<Member(KeyPublic, JStr(ShortContent))>>))}

InitPut ==
    /\ pc = "put_start"
    /\ exit = "running"
    /\ errPath = <<>>
    /\ fs \in PutFsPool
    /\ store \in PutStorePool
    /\ remoteCalls = 0
    /\ files = EmptyBundle
    /\ log = <<>>
    /\ todo = {}
    /\ map = EmptyBundle
    /\ shown = <<>>
    /\ answer = <<>>
    /\ asked = 0
    /\ lastLine = <<>>
    /\ response = NoSecret
    /\ fs0 = fs
    /\ store0 = store
    /\ cmd = "put"
    /\ runs = 1
    /\ history = <<>>
    /\ requests = <<>>
    /\ uuids = 0
    /\ exhausted = FALSE

SpecPut == InitPut /\ [][NextPut]_vars

-----------------------------------------------------------------------------
(* Several invocations, one after the other, on the same machine and secret *)

\* what one invocation leaves behind for the record
Past == [cmd |-> cmd, exit |-> exit, fs0 |-> fs0, store0 |-> store0]

\* lines 59-77: main parses the command line and calls get or put.  A new
\* process starts with fresh locals; the file system and the store are as
\* the earlier invocations left them.
Invoke(c) ==
    /\ pc \in {"idle", "done"}
    /\ runs < MaxRuns
    /\ cmd' = c
    /\ runs' = runs + 1
    /\ history' = IF pc = "idle" THEN history ELSE Append(history, Past)
    /\ pc' = IF c = "get" THEN "get_start" ELSE "put_start"
    /\ exit' = "running"
    /\ errPath' = <<>>
    /\ remoteCalls' = 0
    /\ files' = EmptyBundle
    /\ log' = <<>>
    /\ todo' = {}
    /\ map' = EmptyBundle
    /\ shown' = <<>>
    /\ answer' = <<>>
    /\ asked' = 0
    /\ lastLine' = <<>>
    /\ response' = NoSecret
    /\ exhausted' = FALSE
    /\ fs0' = fs
    /\ store0' = store
    /\ UNCHANGED <<fs, store, requests, uuids>>

Next ==
    \/ \E c \in {"get", "put"} : Invoke(c)
    \/ NextGet
    \/ NextPut

\* the source directory of the session: one small file, or a small file, a
\* file of the writer's capacity and a subdirectory
SessionSources ==
    { {<< <<NameS>>, DirNode >>, <<InS(<<"k">>), FileNode(ShortContent, 384)>>},
      {<< <<NameS>>, DirNode >>, <<InS(KeyPub), FileNode(ShortContent, 420)>>,
       <<InS(<<"Z">>), FileNode(LongContent, 384)>>, <<InS(NameD), DirNode>>} }

\* the target of the session: absent with its parent, or an empty directory
SessionTargets ==
    { {}, {<< <<NameP>>, DirNode >>, << <<NameP, NameT>>, DirNode >>} }

SessionFsPool == {MkFs(RootOnly \cup S \cup T) : S \in SessionSources, T \in SessionTargets}

SessionStorePool ==
    {NoSecret, StringSecret(JBad),
     StringSecret(JObj(<<Member(KeyPublic, JStr(ShortContent))>>))}

Init ==
    /\ pc = "idle"
    /\ exit = "running"
    /\ errPath = <<>>
    /\ fs \in SessionFsPool
    /\ store \in SessionStorePool
    /\ remoteCalls = 0
    /\ files = EmptyBundle
    /\ log = <<>>
    /\ todo = {}
    /\ map = EmptyBundle
    /\ shown = <<>>
    /\ answer = <<>>
    /\ asked = 0
    /\ lastLine = <<>>
    /\ response = NoSecret
    /\ fs0 = fs
    /\ store0 = store
    /\ cmd = "none"
    /\ runs = 0
    /\ history = <<>>
    /\ requests = <<>>
    /\ uuids = 0
    /\ exhausted = FALSE

Spec == Init /\ [][Next]_vars

-----------------------------------------------------------------------------
(* Properties of put *)

LowerChar(c) ==
    CASE c = "Y" -> "y" [] c = "E" -> "e" [] c = "S" -> "s"
      [] c = "N" -> "n" [] c = "O" -> "o" [] OTHER -> c
ToLower(t) == [i \in 1..Len(t) |-> LowerChar(t[i])]

\* the line is `yes` or `y` in some letter casing
AffirmativeAnswer(line) == ToLower(Trim(line)) \in {<<"y", "e", "s">>, <<"y">>}
\* the line is `no` or `n` in some letter casing
NegativeAnswer(line) == ToLower(Trim(line)) \in {<<"n", "o">>, <<"n">>}

ListingShown ==
    /\ Len(shown) >= 2
    /\ shown[1].kind = "question"
    /\ \E i \in 2..Len(shown) : shown[i].kind = "warning"

\* C1: put sends a request to the store only after the gate has read an
\* affirmative answer: none while it scans, while the listing is shown or
\* while it prompts, whatever was typed before; and when a request has been
\* sent, the scan is over, the listing was shown and the line read last was
\* an affirmative answer.
C1_RemoteOnlyAfterYes ==
    /\ pc \in {"put_start", "put_scan", "put_confirm", "put_send"} => remoteCalls = 0
    /\ remoteCalls = 0 => store = store0
    /\ remoteCalls > 0 =>
          /\ asked >= 1
          /\ AffirmativeAnswer(lastLine)
          /\ todo = {}
          /\ ListingShown

\* C1 witness: the request went out after unrecognised lines and a yes
C1_Witness ==
    /\ remoteCalls = 1
    /\ asked >= 2
    /\ AffirmativeAnswer(lastLine)
    /\ store # store0

\* C2: when the line the gate read last is a negative answer, put has ended
\* with exit code 0, has sent nothing to the store, and the secret is as it
\* was; also after unrecognised lines.
C2_NegativeExits ==
    (asked >= 1 /\ NegativeAnswer(lastLine)) =>
        /\ pc = "done"
        /\ exit = "exit0"
        /\ remoteCalls = 0
        /\ store = store0

\* C3: the gate matches without regard to letter case: after a line that is
\* yes or y in any casing the gate has let put proceed, after a line that is
\* no or n in any casing put has exited with code 0, and after any other line
\* the gate prompts again with an empty answer buffer.
C3_CaseInsensitive ==
    asked >= 1 =>
        /\ AffirmativeAnswer(lastLine) => pc # "put_confirm" /\ exit # "exit0"
        /\ NegativeAnswer(lastLine) => pc = "done" /\ exit = "exit0"
        /\ (~AffirmativeAnswer(lastLine) /\ ~NegativeAnswer(lastLine)) =>
              pc = "put_confirm" /\ answer = <<>>

\* the regular files that are immediate entries of the source directory
SourceFiles(f) == {p \in DOMAIN f : Len(p) = 2 /\ p[1] = NameS /\ f[p].type = "file"}
SourceIsDir(f) == <<NameS>> \in DOMAIN f /\ f[<<NameS>>].type = "dir"
Offending(f) ==
    {p \in SourceFiles(f) :
        \/ \E i \in 1..Len(p[2]) : p[2][i] = InvalidByte
        \/ \E i \in 1..Len(f[p].content) : f[p].content[i] = InvalidByte}

ScanOver ==
    \/ pc \in {"put_confirm", "put_send", "put_report"}
    \/ pc = "done" /\ exit \in {"ok", "exit0", "StoreError"}

\* C9: when a regular file of the source directory has a name or content that
\* is not text, put never shows the prompt and never sends a request, and it
\* ends with an EncodingError, wherever the file comes in the listing; when
\* the source path is not a directory, put ends with a ValidationError and
\* has sent no request.
C9_BadSourceFailsEarly ==
    /\ (SourceIsDir(fs0) /\ Offending(fs0) # {}) =>
          /\ shown = <<>>
          /\ remoteCalls = 0
          /\ store = store0
          /\ pc \in {"put_start", "put_scan", "done"}
          /\ pc = "done" => exit = "EncodingError" /\ Locate(fs0, errPath).path \in Offending(fs0)
    /\ (<<NameS>> \in DOMAIN fs0 /\ ~SourceIsDir(fs0)) =>
          /\ remoteCalls = 0
          /\ shown = <<>>
          /\ pc = "done" => exit = "ValidationError"

\* C9 witness: the scan failed on an offending file after it had already
\* taken another file into the map
C9_Witness ==
    /\ pc = "done"
    /\ exit = "EncodingError"
    /\ DOMAIN map # {}
    /\ remoteCalls = 0

\* C10: once the scan is over, the map's keys are exactly the names of the
\* regular files that are immediate entries of the source directory, each
\* with that file's content; and entries that are not regular files cause no
\* error: the scan fails only when the source is no directory or a regular
\* file offends.
C10_ScanTakesRegularFiles ==
    /\ ScanOver =>
          /\ DOMAIN map = {p[2] : p \in SourceFiles(fs0)}
          /\ \A p \in SourceFiles(fs0) : map[p[2]] = fs0[p].content
    /\ (SourceIsDir(fs0) /\ Offending(fs0) = {}) =>
          exit \notin {"EncodingError", "FileSystemError", "ValidationError"}

\* C10 witness: a source directory with a regular file and entries of other
\* kinds was scanned into a map of the regular file alone
C10_Witness ==
    /\ ScanOver
    /\ Cardinality(DOMAIN map) = 1
    /\ \E p \in DOMAIN fs0 : Len(p) = 2 /\ p[1] = NameS /\ fs0[p].type # "file"

-----------------------------------------------------------------------------
(* Properties of get *)

TargetPath == <<NameP, NameT>>

\* the files this run has created
CreatedFiles == {p \in DOMAIN fs \ DOMAIN fs0 : fs[p].type = "file"}

\* C4: when the target exists and is no directory, or is a directory with an
\* entry, get ends with a ValidationError, has sent no request, has created
\* nothing, and the file system is as it was.
C4_NonEmptyTargetRejected ==
    (/\ TargetPath \in DOMAIN fs0
     /\ \/ fs0[TargetPath].type # "dir"
        \/ \E p \in DOMAIN fs0 : Len(p) = 3 /\ SubSeq(p, 1, 2) = TargetPath) =>
        /\ remoteCalls = 0
        /\ fs = fs0
        /\ log = <<>>
        /\ pc \in {"get_start", "done"}
        /\ pc = "done" => exit = "ValidationError"

\* C4 witness: get has rejected a directory that holds an entry
C4_Witness ==
    /\ pc = "done"
    /\ exit = "ValidationError"
    /\ TargetPath \in DOMAIN fs0
    /\ fs0[TargetPath].type = "dir"
    /\ remoteCalls = 0

\* C5: every file get creates is an immediate child of the target directory,
\* whatever the keys of the payload are; a successful get has created one
\* file per key.
C5_FilesStayInTarget ==
    /\ \A p \in CreatedFiles : Len(p) = 3 /\ SubSeq(p, 1, 2) = TargetPath
    /\ (pc = "done" /\ exit = "ok") => Cardinality(CreatedFiles) = Len(log)

\* the path of entry i existed when get came to create it
ExistedAtCreation(i) ==
    \/ log[i].path \in DOMAIN fs0
    \/ \E j \in 1..(i - 1) : log[j].path = log[i].path /\ log[j].outcome # "create_failed"

\* C6: creation is exclusive: when the path of an entry exists at the moment
\* get creates it, get ends there with a FileSystemError naming the path;
\* nothing that existed before the run changes, and a file the run has
\* written keeps its content and mode.
C6_ExclusiveCreate ==
    /\ \A p \in DOMAIN fs0 : p \in DOMAIN fs /\ fs[p] = fs0[p]
    /\ \A i \in 1..Len(log) :
          /\ ExistedAtCreation(i) =>
                /\ log[i].outcome = "create_failed"
                /\ i = Len(log)
                /\ pc = "done"
                /\ exit = "FileSystemError"
                /\ errPath = Join(Outdir, log[i].key)
          /\ log[i].outcome = "written" =>
                fs[log[i].path] = FileNode(log[i].content, log[i].mode)

\* C6 witness: two keys of one payload name the same path; the second
\* creation failed and the first file is as it was written
C6_Witness ==
    /\ Len(log) = 2
    /\ log[1].outcome = "written"
    /\ log[2].outcome = "create_failed"
    /\ log[1].path = log[2].path
    /\ log[1].content # <<>>
    /\ fs[log[1].path].content = log[1].content

HasBit(m, b) == (m \div b) % 2 = 1

C8_AbortOnFailure ==
    \A i \in 1..Len(log) :
        /\ log[i].outcome # "written" =>
              /\ i = Len(log)
              /\ pc = "done"
              /\ exit = "FileSystemError"
        /\ log[i].outcome = "written" =>
              fs[log[i].path] = FileNode(log[i].content, log[i].mode)


-----------------------------------------------------------------------------
(* Properties of the upload *)

\* the keys of a secret's object, read off the text
KeysOf(secret) ==
    IF secret.kind = "string" /\ secret.text.t = "obj"
    THEN {secret.text.m[i].k : i \in 1..Len(secret.text.m)}
    ELSE {}

\* C11: after put's replace request has succeeded, the secret is an object
\* whose members are exactly the regular files of the source directory, one
\* member per file with the file's content as a string: no key of the value
\* the store held before is left unless the source has it; and put has sent
\* that one request only, never a fetch.
C11_ReplaceIsTotal ==
    (pc = "put_report" \/ (cmd = "put" /\ pc = "done" /\ exit = "ok")) =>
        /\ store.kind = "string"
        /\ store.text.t = "obj"
        /\ Len(store.text.m) = Cardinality(SourceFiles(fs0))
        /\ \A p \in SourceFiles(fs0) :
              \E i \in 1..Len(store.text.m) :
                  store.text.m[i] = [k |-> p[2], v |-> [t |-> "str", s |-> fs0[p].content]]
        /\ \A k \in KeysOf(store0) :
              k \in KeysOf(store) => \E p \in SourceFiles(fs0) : p[2] = k
        /\ remoteCalls = 1
        /\ \A i \in 1..Len(requests) : requests[i].op = "put"

\* C11 witness: the store held a key the source lacks, and after a put of two
\* files that key is gone
C11_Witness ==
    /\ cmd = "put"
    /\ pc = "done"
    /\ exit = "ok"
    /\ KeysOf(store0) # {}
    /\ KeysOf(store0) \cap KeysOf(store) = {}
    /\ Cardinality(KeysOf(store)) = 2


-----------------------------------------------------------------------------
(* Properties of get's errors *)

\* the bundle the store held when the run started
Bundle0 ==
    IF store0.kind = "string" THEN Decode(store0.text).files ELSE EmptyBundle

\* C13: no error of get is swallowed. When get returns success, the file of
\* every entry of the bundle exists and holds exactly the entry's content;
\* and an entry whose content did not reach its file ends get with an error,
\* a failure of the flush at the writer's release included.
C13_NoSwallowedError ==
    /\ (cmd = "get" /\ pc = "done" /\ exit = "ok") =>
          \A k \in DOMAIN Bundle0 :
              \E i \in 1..Len(log) :
                  /\ log[i].key = k
                  /\ log[i].path \in DOMAIN fs
                  /\ fs[log[i].path].type = "file"
                  /\ fs[log[i].path].content = Bundle0[k]
    /\ \A i \in 1..Len(log) :
          log[i].outcome \in {"flush_failed", "write_failed"} =>
              (pc = "done" /\ exit = "FileSystemError")


\* the secret is a text that is an object of string-to-string pairs
WellFormed(secret) ==
    /\ secret.kind = "string"
    /\ secret.text.t = "obj"
    /\ \A i \in 1..Len(secret.text.m) : secret.text.m[i].v.t = "str"

FetchFailed == \E i \in 1..Len(requests) : requests[i].op = "get" /\ ~requests[i].ok

\* C14: a get whose fetch fails, or whose response has no secret string, ends
\* with a StoreError; one whose payload is no object of string-to-string pairs
\* ends with a DecodeError; and in each of these cases no file has been
\* created: get handles its first entry only after a fetch that succeeded and
\* a payload that decoded as a whole.
C14_FailBeforeAnyFile ==
    /\ (cmd = "get" /\ pc = "done" /\ remoteCalls >= 1 /\ FetchFailed) =>
          exit = "StoreError"
    /\ (cmd = "get" /\ pc = "done" /\ remoteCalls >= 1 /\ ~FetchFailed
          /\ store0.kind # "string") => exit = "StoreError"
    /\ (cmd = "get" /\ pc = "done" /\ remoteCalls >= 1 /\ ~FetchFailed
          /\ store0.kind = "string" /\ ~WellFormed(store0)) => exit = "DecodeError"
    /\ (cmd = "get" /\ exit \in {"StoreError", "DecodeError"}) =>
          (CreatedFiles = {} /\ log = <<>> /\ files = EmptyBundle)
    /\ (cmd = "get" /\ (pc = "get_loop" \/ log # <<>> \/ CreatedFiles # {})) =>
          (WellFormed(store0) /\ ~FetchFailed /\ remoteCalls = 1)

\* C14 witness: the payload is an object with a string member followed by a
\* number member; get has ended with a DecodeError
C14_Witness ==
    /\ cmd = "get"
    /\ pc = "done"
    /\ exit = "DecodeError"
    /\ store0.kind = "string"
    /\ store0.text.t = "obj"
    /\ Len(store0.text.m) = 2
    /\ store0.text.m[1].v.t = "str"


-----------------------------------------------------------------------------
(* Properties of the listing *)

\* the filenames of the listing, in the order they were printed
ShownItems ==
    LET items == SelectSeq(shown, LAMBDA o : o.kind = "item")
    IN  [i \in 1..Len(items) |-> items[i].text]

\* C16: the listing the gate shows is in strictly ascending order, so no key
\* is in it twice; its names are exactly the keys of the bundle, which are the
\* names of the source directory's regular files; and the payload of a
\* request sent afterwards has exactly these keys, each once.
C16_ListingIsPayload ==
    (cmd = "put" /\ ListingShown) =>
        /\ \A i, j \in 1..Len(ShownItems) :
              i < j => (ShownItems[i] # ShownItems[j] /\ StrLeq(ShownItems[i], ShownItems[j]))
        /\ {ShownItems[i] : i \in 1..Len(ShownItems)} = DOMAIN map
        /\ {ShownItems[i] : i \in 1..Len(ShownItems)} = {p[2] : p \in SourceFiles(fs0)}
        /\ \A r \in 1..Len(requests) :
              /\ KeysOf(requests[r].payload) = {ShownItems[i] : i \in 1..Len(ShownItems)}
              /\ Len(requests[r].payload.text.m) = Len(ShownItems)

\* C16 witness: two files were listed, the operator confirmed, and the
\* request has been sent
C16_Witness ==
    /\ cmd = "put"
    /\ ListingShown
    /\ Len(ShownItems) = 2
    /\ Len(requests) = 1
    /\ requests[1].ok


-----------------------------------------------------------------------------
(* Properties of the gate at end of input *)

\* C18: once the operator's input is exhausted before a recognised answer,
\* put stays in the gate: it has sent no request, it has not ended, and every
\* step it takes reads end of input again, takes it as an unrecognised
\* answer, prompts again and is still in the gate.
C18_EndOfInputLoops ==
    /\ [](exhausted =>
            /\ pc = "put_confirm"
            /\ exit = "running"
            /\ remoteCalls = 0
            /\ requests = <<>>
            /\ answer = <<>>
            /\ lastLine = <<>>)
    /\ [][exhausted =>
            /\ exhausted'
            /\ pc' = "put_confirm"
            /\ exit' = "running"
            /\ remoteCalls' = 0
            /\ asked' = asked + 1
            /\ shown' = Append(shown, Out("prompt", <<>>))]_vars

\* C18 witness: the gate has read end of input twice, the second time from
\* an input already exhausted, and prompts again
C18_Witness ==
    /\ exhausted
    /\ asked >= 2
    /\ pc = "put_confirm"
    /\ shown[Len(shown)].kind = "prompt"
    /\ shown[Len(shown) - 1].kind = "prompt"


-----------------------------------------------------------------------------
(* Properties of the requests *)

\* the requests of the running invocation
OwnRequests == SelectSeq(requests, LAMBDA r : r.run = runs)

\* C15: an invocation sends at most one request, a fetch when it is get and
\* a replace when it is put.  When the request fails the invocation has
\* ended with the StoreError, has sent no other request, and, for put, has
\* reported no version.
C15_OneRequestNoRetry ==
    /\ remoteCalls <= 1
    /\ Len(OwnRequests) = remoteCalls
    /\ \A i \in 1..Len(OwnRequests) :
          /\ OwnRequests[i].op = cmd
          /\ ~OwnRequests[i].ok =>
                /\ pc = "done"
                /\ exit = "StoreError"
                /\ \A j \in 1..Len(shown) : shown[j].kind # "version"

\* C15 witness: a put whose replace request the store failed, ended
C15_Witness ==
    /\ cmd = "put"
    /\ pc = "done"
    /\ Len(OwnRequests) = 1
    /\ ~OwnRequests[1].ok
    /\ store0.kind = "string"


\* the replace requests sent so far, by all invocations
PutRequests == SelectSeq(requests, LAMBDA r : r.op = "put")

\* C17: every replace request carries a token generated in its invocation:
\* one token is generated per request, none before the operator has
\* confirmed, and the request is sent after the confirmation.  The tokens of
\* two replace requests differ, also when the two payloads are the same, as
\* in a second put after the store failed the first.
C17_FreshTokenPerInvocation ==
    /\ uuids = Len(PutRequests)
    /\ \A i \in 1..Len(PutRequests) :
          PutRequests[i].token # NoToken
    /\ \A i, j \in 1..Len(PutRequests) :
          i # j => /\ PutRequests[i].token # PutRequests[j].token
                   /\ PutRequests[i].run # PutRequests[j].run
    /\ (cmd = "put" /\ pc \in {"put_start", "put_scan", "put_confirm", "put_send"}) =>
          \A i \in 1..Len(PutRequests) : PutRequests[i].run < runs
    /\ (cmd = "put" /\ \E i \in 1..Len(PutRequests) : PutRequests[i].run = runs) =>
          IsYes(Trim(answer))

\* C17 witness: the store failed the first put; the second put sent the same
\* payload under another token
C17_Witness ==
    /\ Len(PutRequests) = 2
    /\ ~PutRequests[1].ok
    /\ PutRequests[2].ok
    /\ PutRequests[1].payload = PutRequests[2].payload
    /\ PutRequests[1].token # PutRequests[2].token


-----------------------------------------------------------------------------
(* Properties of the target directory *)

\* the target is a directory without an entry
EmptyTarget(f) ==
    /\ TargetPath \in DOMAIN f
    /\ f[TargetPath].type = "dir"
    /\ ParentOf(TargetPath) \in DOMAIN f
    /\ f[ParentOf(TargetPath)].type = "dir"
    /\ Children(f, TargetPath) = {}

\* the invocation before the running one
Previous == history[Len(history)]

\* C19: a get whose target did not exist has created it, with its parent, by
\* the time it sends the fetch; when that get ends with a StoreError or a
\* DecodeError the target is an empty directory and nothing else has changed;
\* and a get that follows such a get on the same path is not stopped by the
\* precondition: it sends its fetch.
C19_TargetCreatedBeforeFetch ==
    /\ (cmd = "get" /\ TargetPath \notin DOMAIN fs0 /\ (pc = "get_fetch" \/ remoteCalls >= 1)) =>
          /\ TargetPath \in DOMAIN fs
          /\ fs[TargetPath].type = "dir"
          /\ ParentOf(TargetPath) \in DOMAIN fs
    /\ (cmd = "get" /\ TargetPath \notin DOMAIN fs0 /\ pc = "get_fetch") => EmptyTarget(fs)
    /\ (cmd = "get" /\ TargetPath \notin DOMAIN fs0 /\ exit \in {"StoreError", "DecodeError"}) =>
          /\ EmptyTarget(fs)
          /\ \A p \in DOMAIN fs0 : fs[p] = fs0[p]
          /\ \A p \in DOMAIN fs \ DOMAIN fs0 : p \in {TargetPath, ParentOf(TargetPath)}
    /\ (/\ cmd = "get"
        /\ history # <<>>
        /\ Previous.cmd = "get"
        /\ Previous.exit \in {"StoreError", "DecodeError"}) =>
          /\ EmptyTarget(fs0)
          /\ pc # "get_start" => (pc = "get_fetch" \/ remoteCalls = 1)
          /\ exit \notin {"ValidationError"}

\* C19 witness: the first get found no target and ended with a DecodeError;
\* the second get has passed the precondition and sent its fetch
C19_Witness ==
    /\ cmd = "get"
    /\ history # <<>>
    /\ Previous.cmd = "get"
    /\ Previous.exit = "DecodeError"
    /\ TargetPath \notin DOMAIN Previous.fs0
    /\ EmptyTarget(fs0)
    /\ remoteCalls = 1


-----------------------------------------------------------------------------
(* Properties of the codec *)

\* the regular files directly in the target
TargetFiles(f) ==
    {p \in DOMAIN f : Len(p) = 3 /\ SubSeq(p, 1, 2) = TargetPath /\ f[p].type = "file"}

\* C12: decoding the encoding of a bundle with non-empty keys gives the
\* bundle back, in whatever order the map is iterated; and when a put that
\* the operator confirmed has succeeded and the get that follows it, into a
\* target that was absent or empty, returns success, the target holds one
\* file per regular file of the source directory, with the same name and the
\* same content, and no other file.
C12_RoundTrip ==
    /\ pc = "idle" =>
          \A b \in {x \in Bundles : <<>> \notin DOMAIN x} :
              \A q \in Orders(DOMAIN b) : Decode(Encode(b, q)) = [ok |-> TRUE, files |-> b]
    /\ \A q \in Orders(DOMAIN map) : Decode(Encode(map, q)) = [ok |-> TRUE, files |-> map]
    /\ (/\ cmd = "get"
        /\ pc = "done"
        /\ exit = "ok"
        /\ history # <<>>
        /\ Previous.cmd = "put"
        /\ Previous.exit = "ok") =>
          /\ {p[3] : p \in TargetFiles(fs)} = {p[2] : p \in SourceFiles(fs)}
          /\ \A p \in SourceFiles(fs) :
                /\ TargetPath \o <<p[2]>> \in DOMAIN fs
                /\ fs[TargetPath \o <<p[2]>>].type = "file"
                /\ fs[TargetPath \o <<p[2]>>].content = fs[p].content


====
